---------------------------- MODULE Spec2Model ----------------------------
(***************************************************************************)
(* A model of the blueprint conversion scripts (scripts/convert):          *)
(*   parse_latex.py   parse_nodes                                          *)
(*   modify_lean.py   split_declaration, insert_attributes, modify_source, *)
(*                    topological_sort, write_blueprint_attributes         *)
(*   common.py        Node, Node.to_lean_attribute, _wrap, make_docstring  *)
(*   main.py          main                                                 *)
(*                                                                         *)
(* Texts are sequences of tokens: a token stands for a run of characters   *)
(* that no regular expression of the scripts splits.  A LaTeX document is  *)
(* the sequence of its environments, each one the record of the commands   *)
(* parse_and_remove_blueprint_commands extracts from it.                   *)
(***************************************************************************)
EXTENDS Integers, Sequences, FiniteSets, TLC

VARIABLES
    pc,                 \* position of the run
    source,             \* main: the flattened LaTeX document (the .tex file's blocks)
    convert_informal,   \* args.convert_informal
    i,                  \* parse_nodes: index of the match the current loop is at
    match_idx_to_label, \* parse_nodes
    nodes,              \* parse_nodes
    seen_lean_names,    \* parse_nodes
    seen_latex_labels,  \* parse_nodes
    label_alias,        \* parse_nodes
    label_to_source,    \* parse_nodes
    log,                \* diagnostics written with logger.warning
    texFile,            \* the blueprint's .tex file on disk, as its blocks
    macrosFile,         \* macros/common.tex on disk
    lean_env,           \* what add_position_info finds for each Lean name
    leanFiles,          \* the Lean files on disk: file name -> text
    leanFiles0,         \* the Lean files as they were when the run started
    add_uses,           \* args.add_uses
    nodes_with_pos,     \* main
    nodes_location_order,     \* write_blueprint_attributes
    nodes_topological_order,  \* write_blueprint_attributes
    prepends,           \* write_blueprint_attributes
    extra_nodes,        \* write_blueprint_attributes
    modified_files,     \* write_blueprint_attributes
    modified_nodes,     \* write_blueprint_attributes
    args,               \* the arguments of a call of a pure function
    result              \* what that call returned

parseVars == <<source, i, match_idx_to_label, nodes,
               seen_lean_names, seen_latex_labels, label_alias, label_to_source, log>>

optionVars == <<convert_informal, add_uses>>

diskVars == <<texFile, macrosFile, leanFiles>>

writeVars == <<nodes_with_pos, nodes_location_order, nodes_topological_order, prepends,
               extra_nodes, modified_files, modified_nodes>>

callVars == <<args, result>>

vars == <<pc, parseVars, optionVars, diskVars, lean_env, leanFiles0, writeVars, callVars>>

----------------------------------------------------------------------------
(* Bounds of the model *)

\* Longest document, in environments.
MaxEnvs == 3

----------------------------------------------------------------------------
(* Values *)

\* Python's None where a string is expected (a label, a \proves target).
None == "<None>"

Labels == {"t0", "t1", "t2"}
Names == {"Foo.baz", "Foo.bar"}

\* NodePart (common.py)
NodePart(ok, text, uses, env) ==
    [lean_ok |-> ok, text |-> text, uses |-> uses, latex_env |-> env]

\* Node.proof = None
NoProof == [lean_ok |-> FALSE, text |-> "", uses |-> {}, latex_env |-> "<None>"]

\* Node (common.py)
Node(name, label, statement, title, not_ready, discussion) ==
    [name |-> name, latex_label |-> label, statement |-> statement, proof |-> NoProof,
     not_ready |-> not_ready, discussion |-> discussion, title |-> title]

\* Node.uses
Uses(node) ==
    node.statement.uses \cup (IF node.proof # NoProof THEN node.proof.uses ELSE {})

\* LatexSource()
LatexSource == [statements |-> <<>>, proofs |-> <<>>]

\* a dict as a function: d[k] = v
DictSet(d, k, v) == [x \in DOMAIN d \cup {k} |-> IF x = k THEN v ELSE d[x]]

EmptyDict == [x \in {} |-> None]

SeqToSet(s) == {s[k] : k \in 1..Len(s)}

\* a local variable of the code, assigned once: the value of F at v
Let(v, F(_)) == CHOOSE r \in {F(x) : x \in {v}} : TRUE

----------------------------------------------------------------------------
(* parse_nodes, first loop: one statement environment *)

\* a merge that keeps the uses of the later environment only
replace_statement_uses(seen_uses, uses) == uses

\* line 210: seen.statement.uses |= set(source_info.uses)
merge_statement_uses(seen_uses, uses) == seen_uses \cup uses

\* line 211: label_alias[label] = seen.latex_label
alias_of(label, seen_label) == seen_label

\* lines 205-230: the loop over the names of one environment
RECURSIVE MergeOrAppend(_, _, _)
MergeOrAppend(st, env, k) ==
    IF k > Len(env.lean) THEN st
    ELSE LET name == env.lean[k] IN
         IF name \in st.seen_lean_names
         THEN \* every node of that name takes the uses; the label becomes an alias
              LET hit == {n \in 1..Len(st.nodes) : st.nodes[n].name = name}
                  merged == [n \in 1..Len(st.nodes) |->
                                IF n \in hit
                                THEN [st.nodes[n] EXCEPT !.statement.uses =
                                                         merge_statement_uses(@, env.uses)]
                                ELSE st.nodes[n]]
                  first == st.nodes[CHOOSE n \in hit : \A m \in hit : n <= m]
                  lts == st.label_to_source
                  lts2 == IF hit = {} THEN lts
                          ELSE [lts EXCEPT ![first.latex_label].statements =
                                       @ \o lts[env.label].statements]
                  st2 == [st EXCEPT !.nodes = merged,
                                    !.label_alias =
                                        IF hit = {} THEN @
                                        ELSE DictSet(@, env.label,
                                                     alias_of(env.label, first.latex_label)),
                                    !.label_to_source = lts2,
                                    !.log = @ \cup {<<"merge-lean", env.label>>}]
              IN  MergeOrAppend(st2, env, k + 1)
         ELSE LET node == Node(name, env.label,
                               NodePart(env.leanok, env.text, env.uses, env.env),
                               env.title, env.notready, env.discussion)
                  st2 == [st EXCEPT !.seen_lean_names = @ \cup {name},
                                    !.nodes = Append(@, node)]
              IN  MergeOrAppend(st2, env, k + 1)

\* lines 176-230: the body of the first loop for match number k
ParseStatementAt(st, env, k) ==
    IF env.env = "proof" \/ env.commented THEN st      \* lines 179-183
    ELSE LET st1 == [st EXCEPT !.match_idx_to_label = DictSet(@, k, env.label)] IN
         IF env.label = None
         THEN [st1 EXCEPT !.log = @ \cup {<<"no-label", None>>}]
         ELSE LET lts == st1.label_to_source
                  old == IF env.label \in DOMAIN lts THEN lts[env.label] ELSE LatexSource
                  st2 == [st1 EXCEPT
                            !.log = IF env.label \in st1.seen_latex_labels
                                    THEN @ \cup {<<"duplicate-label", env.label>>} ELSE @,
                            !.seen_latex_labels = @ \cup {env.label},
                            !.label_to_source =
                                DictSet(@, env.label,
                                        [old EXCEPT !.statements = Append(@, env)])]
              IN  \* line 197: source_info.lean is a list, never None, so the names
                  \* are always those of \lean (none when the command is absent)
                  MergeOrAppend(st2, env, 1)

ParseState ==
    [match_idx_to_label |-> match_idx_to_label, nodes |-> nodes,
     seen_lean_names |-> seen_lean_names, seen_latex_labels |-> seen_latex_labels,
     label_alias |-> label_alias, label_to_source |-> label_to_source, log |-> log]

SetParseState(st) ==
    /\ match_idx_to_label' = st.match_idx_to_label
    /\ nodes' = st.nodes
    /\ seen_lean_names' = st.seen_lean_names
    /\ seen_latex_labels' = st.seen_latex_labels
    /\ label_alias' = st.label_alias
    /\ label_to_source' = st.label_to_source
    /\ log' = st.log

\* One iteration of the loop of lines 176-230.
ParseStatement ==
    /\ pc = "statements"
    /\ SetParseState(ParseStatementAt(ParseState, source[i], i))
    /\ IF i < Len(source)
       THEN i' = i + 1 /\ pc' = pc
       ELSE i' = 1 /\ pc' = "proofs"
    /\ UNCHANGED <<source, optionVars, diskVars, lean_env, leanFiles0, writeVars, callVars>>

----------------------------------------------------------------------------
(* parse_nodes, second loop: one proof environment *)

\* lines 232-234
LabelToNodes(ns, label) == {n \in 1..Len(ns) : ns[n].latex_label = label}

\* line 267: proved.proof.uses |= set(source_info.uses)
merge_proof_uses(proof_uses, uses) == proof_uses \cup uses

\* lines 263-274
AttachProof(ns, proved_label, env) ==
    [n \in 1..Len(ns) |->
        IF n \notin LabelToNodes(ns, proved_label) THEN ns[n]
        ELSE IF ns[n].proof # NoProof
             THEN [ns[n] EXCEPT !.proof.uses = merge_proof_uses(@, env.uses)]
             ELSE [ns[n] EXCEPT !.proof =
                       NodePart(env.leanok, env.text, env.uses, env.env)]]

\* a search that takes the nearest statement before the proof, not the match just
\* before it
ProvedLabelNearest(st, env, k) ==
    LET before == {j \in DOMAIN st.match_idx_to_label : j < k}
        found == IF env.proves # None THEN env.proves
                 ELSE IF before # {}
                      THEN LET j == CHOOSE j \in before : \A m \in before : m <= j
                           IN  IF st.match_idx_to_label[j] = None THEN "<skip>"
                               ELSE st.match_idx_to_label[j]
                      ELSE "<warn>"
    IN  IF found \in DOMAIN st.label_alias THEN st.label_alias[found] ELSE found

\* lines 247-259: the label a proof proves; "<skip>" and "<warn>" when it is dropped
ProvedLabel(st, env, k) ==
    LET found == IF env.proves # None THEN env.proves
                 ELSE IF (k - 1) \in DOMAIN st.match_idx_to_label
                      THEN IF st.match_idx_to_label[k - 1] = None THEN "<skip>"
                           ELSE st.match_idx_to_label[k - 1]
                      ELSE "<warn>"
    IN  IF found \in DOMAIN st.label_alias THEN st.label_alias[found] ELSE found

\* One iteration of the loop of lines 237-274.
ParseProof ==
    /\ pc = "proofs"
    /\ LET env == source[i]
           st == ParseState
           proved_label == ProvedLabel(st, env, i)
           next == IF i < Len(source) THEN [i |-> i + 1, pc |-> "proofs"]
                   ELSE [i |-> 1, pc |-> "selfloops"]
       IN  IF env.env # "proof" \/ env.commented \/ proved_label = "<skip>"
           THEN /\ SetParseState(st)
                /\ i' = next.i /\ pc' = next.pc
           ELSE IF proved_label = "<warn>"
           THEN /\ SetParseState([st EXCEPT !.log = @ \cup {<<"no-proved", None>>}])
                /\ i' = next.i /\ pc' = next.pc
           ELSE IF proved_label \notin DOMAIN st.label_to_source
           THEN \* line 261: KeyError
                /\ SetParseState(st)
                /\ i' = i /\ pc' = "raised"
           ELSE /\ SetParseState(
                     [st EXCEPT
                        !.label_to_source[proved_label].proofs = Append(@, env),
                        !.nodes = AttachProof(@, proved_label, env),
                        !.log = IF \E n \in LabelToNodes(st.nodes, proved_label) :
                                        st.nodes[n].proof # NoProof
                                THEN @ \cup {<<"duplicate-proof", proved_label>>}
                                ELSE @])
                /\ i' = next.i /\ pc' = next.pc
    /\ UNCHANGED <<source, optionVars, diskVars, lean_env, leanFiles0, writeVars, callVars>>

----------------------------------------------------------------------------
(* parse_nodes, the end: lines 276-285 *)

\* a discard that clears the statement uses only
DiscardSelfInStatement(node) ==
    [node EXCEPT !.statement.uses = @ \ {node.latex_label}]

\* lines 277-280
DiscardSelf(node) ==
    [node EXCEPT !.statement.uses = @ \ {node.latex_label},
                 !.proof.uses = IF node.proof # NoProof
                                THEN @ \ {node.latex_label} ELSE @]

ClearSelfLoops ==
    /\ pc = "selfloops"
    /\ nodes' = [n \in 1..Len(nodes) |-> DiscardSelf(nodes[n])]
    /\ pc' = IF Cardinality({nodes[n].name : n \in 1..Len(nodes)}) = Len(nodes)
             THEN "parsed" ELSE "raised"     \* line 283
    /\ UNCHANGED <<source, i, match_idx_to_label, seen_lean_names,
                   seen_latex_labels, label_alias, label_to_source, log>>
    /\ UNCHANGED <<optionVars, diskVars, lean_env, leanFiles0, writeVars, callVars>>

----------------------------------------------------------------------------
(* Lean text as tokens *)

Tok(k, a, s) == [k |-> k, a |-> a, s |-> s]
T(k) == Tok(k, "", {})

NL == T("nl")                 \* "\n"
SP == T("sp")                 \* blanks inside a line

IsSpace(t) == t.k \in {"nl", "sp"}         \* what \s matches

\* tokens that start with a letter or an underscore: [a-zA-Z_]+
StartsWithLetter(t) == t.k \in {"modifier", "decl", "word", "to_additive", "import"}
\* tokens that end with " in": the clause `open Foo in`, `omit [..] in`, ...
EndsWithIn(t) == t.k = "modifier"

\* the index of the first token of s at or after j that satisfies P; 0 when none
RECURSIVE FindKind(_, _, _)
FindKind(s, kinds, j) ==
    IF j > Len(s) THEN 0
    ELSE IF s[j].k \in kinds THEN j ELSE FindKind(s, kinds, j + 1)

\* the number of leading tokens of s that \s* takes
RECURSIVE LeadingSpace(_)
LeadingSpace(s) ==
    IF s = <<>> \/ ~IsSpace(Head(s)) THEN 0 ELSE 1 + LeadingSpace(Tail(s))

Drop(s, n) == SubSeq(s, n + 1, Len(s))
Take(s, n) == SubSeq(s, 1, n)

RECURSIVE Reverse(_)
Reverse(s) == IF s = <<>> THEN <<>> ELSE Append(Reverse(Tail(s)), Head(s))

\* str.strip()
Strip(s) ==
    Let(Drop(s, LeadingSpace(s)), LAMBDA l : Take(l, Len(l) - LeadingSpace(Reverse(l))))

\* [a-zA-Z_]+.*? in\n  matched at the start of s: the length of the match, 0 when none.
\* `.` takes no newline, so the clause is the first line of s, whole.
ModifierLine(s) ==
    Let(FindKind(s, {"nl"}, 1), LAMBDA nl :
        IF nl >= 2 /\ StartsWithLetter(s[1]) /\ EndsWithIn(s[nl - 1]) THEN nl ELSE 0)

\* ^(?:[a-zA-Z_]+.*? in\n)+  the length of the longest run of clauses s starts with
RECURSIVE LeadingModifiers(_)
LeadingModifiers(s) ==
    Let(ModifierLine(s), LAMBDA n :
        IF n = 0 THEN 0 ELSE n + LeadingModifiers(Drop(s, n)))

\* whether s is, from its first to its last token, a run of clauses
OnlyModifiers(s) == s # <<>> /\ LeadingModifiers(s) = Len(s)

----------------------------------------------------------------------------
(* common.py: Node.to_lean_attribute *)

\* a test that takes `theorem` as the default of every node
env_is_not_theorem(node) == node.statement.latex_env # "theorem"

\* line 75
env_is_not_default(node) ==
    \/ (node.proof = NoProof /\ node.statement.latex_env # "definition")
    \/ (node.proof # NoProof /\ node.statement.latex_env # "theorem")

\* lines 57-78; the configs are joined, each after "\n  "
to_lean_attribute(node, add_statement_text, with_uses, add_proof_text, add_proof_uses) ==
    LET has_proof == node.proof # NoProof
        opt(c, t) == IF c THEN <<NL, t>> ELSE <<>>
    IN  <<T("blueprint"), NL, Tok("label", node.latex_label, {})>>
        \o opt(node.title \notin {None, ""}, Tok("title", node.title, {}))
        \o opt(add_statement_text /\ node.statement.text # "",
               Tok("statement", node.statement.text, {}))
        \o opt(with_uses /\ node.statement.uses # {}, Tok("uses", "", node.statement.uses))
        \o opt(has_proof /\ add_proof_text /\ node.proof.text # "",
               Tok("proof", node.proof.text, {}))
        \o opt(has_proof /\ add_proof_uses /\ node.proof.uses # {},
               Tok("proofUses", "", node.proof.uses))
        \o opt(node.not_ready, T("notReady"))
        \o opt(node.discussion \notin {None, "0"}, Tok("discussion", node.discussion, {}))
        \o opt(env_is_not_default(node), Tok("latexEnv", node.statement.latex_env, {}))

\* Node.lean_ok
lean_ok(node) == node.statement.lean_ok /\ (node.proof = NoProof \/ node.proof.lean_ok)

----------------------------------------------------------------------------
(* common.py: _indent, _wrap, make_docstring *)

(* A docstring text is the sequence of its lines; a line is its number of   *)
(* leading blanks and its words (the pieces between single blanks); a word *)
(* is its length and where it holds a % that no backslash precedes: "no"   *)
(* for nowhere, "leading" for as its first character only, "inner" for     *)
(* after another character.  An output line is its length, the number of   *)
(* words on it, whether it starts with the comment marker "% ", whether it *)
(* is the first line of its source line, and where the text _wrap built    *)
(* for it holds such a %: "no", "start" (as its first character only) or   *)
(* "mid" (after a character that is no backslash).                         *)

LEAN_MAX_COLUMNS == 100

Word(len, pct) == [len |-> len, pct |-> pct]
TextLine(indent, words) == [indent |-> indent, words |-> words]
OutLine(len, nwords, comment, first, pct) ==
    [len |-> len, nwords |-> nwords, comment |-> comment, first |-> first, pct |-> pct]

\* len(" ".join(words))
RECURSIVE StrLen(_)
StrLen(words) ==
    IF words = <<>> THEN 0
    ELSE IF Len(words) = 1 THEN words[1].len
    ELSE words[1].len + 1 + StrLen(Tail(words))

\* lines 100-105; no line of the texts of the model is blank
_indent(lines, indent) ==
    IF lines = <<>> THEN <<>>
    ELSE LET common_indent ==
                 CHOOSE c \in {lines[k].indent : k \in 1..Len(lines)} :
                     \A k \in 1..Len(lines) : c <= lines[k].indent
         IN  [k \in 1..Len(lines) |->
                 TextLine(indent + lines[k].indent - common_indent, lines[k].words)]

\* a test for any % that no backslash precedes, the first character of the line too
any_percent(cur) == cur.pct # "no"

\* line 124: re.search(r"[^\\]%", cur)
unescaped_percent(cur) == cur.pct = "mid"

\* where the text `word` holds a %, when it stands at the start of a line
\* (preceded = FALSE) or after blanks
StartingWith(word, preceded) ==
    CASE word.pct = "no" -> "no"
      [] word.pct = "inner" -> "mid"
      [] OTHER -> IF preceded THEN "mid" ELSE "start"

\* lines 126-129: the line an overflowing word starts
NewLine(word, indent, comment) ==
    [len |-> indent + (IF comment THEN 2 ELSE 0) + word.len,
     nwords |-> 1, comment |-> comment, first |-> FALSE,
     pct |-> IF comment THEN (IF indent > 0 \/ word.pct # "no" THEN "mid" ELSE "start")
             ELSE StartingWith(word, indent > 0)]

\* line 131: cur += " " + word
Extended(cur, word) ==
    [cur EXCEPT !.len = @ + 1 + word.len, !.nwords = @ + 1,
                !.pct = IF word.pct # "no" THEN "mid" ELSE @]

\* a loop of _wrap that measures every line from column 0
RECURSIVE wrap_from_zero(_, _, _, _, _, _, _, _)
wrap_from_zero(words, k, indent, start_column, latex_mode, is_comment, cur, res) ==
    IF k > Len(words) THEN Append(res, cur)
    ELSE LET word == words[k] IN
         IF cur.len + 1 + word.len > LEAN_MAX_COLUMNS
         THEN LET comment == is_comment \/ (latex_mode /\ unescaped_percent(cur)) IN
              wrap_from_zero(words, k + 1, indent, start_column, latex_mode, comment,
                             NewLine(word, indent, comment), Append(res, cur))
         ELSE wrap_from_zero(words, k + 1, indent, start_column, latex_mode, is_comment,
                             Extended(cur, word), res)

\* lines 120-132: the loop over words[1:]; k is the index of the next word
RECURSIVE wrap_words(_, _, _, _, _, _, _, _)
wrap_words(words, k, indent, start_column, latex_mode, is_comment, cur, res) ==
    IF k > Len(words) THEN Append(res, cur)
    ELSE LET word == words[k] IN
         IF (IF res = <<>> THEN start_column ELSE 0) + cur.len + 1 + word.len
                > LEAN_MAX_COLUMNS
         THEN LET comment == is_comment \/ (latex_mode /\ unescaped_percent(cur)) IN
              wrap_words(words, k + 1, indent, start_column, latex_mode, comment,
                         NewLine(word, indent, comment), Append(res, cur))
         ELSE wrap_words(words, k + 1, indent, start_column, latex_mode, is_comment,
                         Extended(cur, word), res)

\* indent=None
InferIndent == 0 - 1

\* lines 107-133
_wrap(line, indent, start_column, indent_first_line, latex_mode) ==
    LET indent1 == IF indent = InferIndent THEN line.indent ELSE indent
        first == line.words[1]
        cur == [len |-> (IF indent_first_line THEN indent1 ELSE 0) + first.len,
                nwords |-> 1, comment |-> FALSE, first |-> TRUE,
                pct |-> StartingWith(first, indent_first_line /\ indent1 > 0)]
    IN  wrap_words(line.words, 2, indent1, start_column, latex_mode, FALSE, cur, <<>>)

RECURSIVE WrapEach(_)
WrapEach(lines) ==
    IF lines = <<>> THEN <<>>
    ELSE _wrap(Head(lines), InferIndent, 0, TRUE, TRUE) \o WrapEach(Tail(lines))

\* the closing marker: the word "-/"
Closing == Word(2, "no")

\* lines 139-160: the lines of the docstring, the first of them written at start_column
make_docstring(text, indent, style, start_column) ==
    IF Len(text) = 1
       /\ start_column + 4 + StrLen(text[1].words) + 3 <= LEAN_MAX_COLUMNS
    THEN <<OutLine(4 + StrLen(text[1].words) + 3, Len(text[1].words) + 1, FALSE, TRUE, "no")>>
    ELSE LET lines == _indent(text, indent) IN
         IF style = "hanging"
         THEN <<OutLine(3, 0, FALSE, TRUE, "no")>> \o WrapEach(lines)
              \o <<OutLine(indent + 2, 1, FALSE, TRUE, "no")>>
         ELSE LET n == Len(lines)
                  closed == [lines EXCEPT ![n].words = Append(@, Closing)]
                  head == _wrap(closed[1], InferIndent, start_column + 4, FALSE, TRUE)
                  all == head \o WrapEach(Tail(closed))
              IN  [all EXCEPT ![1].len = @ + 4]

----------------------------------------------------------------------------
(* modify_lean.py: split_declaration, insert_attributes *)

\* source.splitlines(keepends=True): the offset at which line number l (1-indexed) starts
RECURSIVE LineOffset(_, _)
LineOffset(s, l) ==
    IF l <= 1 THEN 0
    ELSE Let(FindKind(s, {"nl"}, 1), LAMBDA nl :
             IF nl = 0 THEN Len(s)
             ELSE nl + LineOffset(Drop(s, nl), l - 1))

Min(a, b) == IF a < b THEN a ELSE b

\* lines 17-18; a slice past the end of the text stops at the end
Offset(s, line, column) == Min(LineOffset(s, line) + column, Len(s))

\* lines 20-24
SplitAt(s, start, end) ==
    [pre |-> Take(s, start),
     decl |-> IF end > start THEN SubSeq(s, start + 1, end) ELSE <<>>,
     post |-> Drop(s, end)]

\* lines 12-24
split_declaration(s, loc) ==
    SplitAt(s, Offset(s, loc.line, loc.column), Offset(s, loc.end_line, loc.end_column))

\* lines 53-56
ToAdditive(attrs, rest) ==
    <<T("to_additive"), SP, T("(attr :="), SP>> \o attrs \o <<T(")")>>
    \o (IF rest # <<>> THEN <<SP>> \o rest ELSE <<>>)

\* lines 48-56; open and close are the ends of the match of \(attr\s*:=\s*(.*?)\),
\* both 0 when there is none
InsertToAdditiveAt(decl, open, close, new_attr) ==
    IF open # 0 /\ close # 0
    THEN ToAdditive(SubSeq(decl, open + 1 + LeadingSpace(Drop(decl, open)), close - 1)
                    \o <<T(","), SP>> \o new_attr,
                    Take(decl, open - 1) \o Drop(decl, close))
    ELSE ToAdditive(new_attr, decl)

\* lines 36-56: the to_additive form
insert_to_additive(decl0, new_attr) ==
    Let(Strip(Tail(decl0)), LAMBDA decl :
    Let(FindKind(decl, {"(attr :="}, 1), LAMBDA open :
        InsertToAdditiveAt(decl, open,
                           IF open = 0 THEN 0 ELSE FindKind(decl, {")"}, open + 1),
                           new_attr)))

\* ^\s*/--.*?-/\s*  matched at the start of decl: the length of the match, 0 when none
DocstringMatch(decl) ==
    Let(LeadingSpace(decl), LAMBDA dsp :
        IF Len(decl) > dsp /\ decl[dsp + 1].k = "/--"
        THEN Let(FindKind(decl, {"-/"}, dsp + 2), LAMBDA dclose :
                 IF dclose = 0 THEN 0 ELSE dclose + LeadingSpace(Drop(decl, dclose)))
        ELSE 0)

\* ^\s*@\[(.*?)\]\s*  matched at the start of decl: the places of "@[" and of the
\* first "]" after it, and the length of the match; all 0 when none
AttributesMatch(decl) ==
    Let(LeadingSpace(decl), LAMBDA asp :
        IF Len(decl) > asp /\ decl[asp + 1].k = "@["
        THEN Let(FindKind(decl, {"]"}, asp + 2), LAMBDA aclose :
                 IF aclose = 0 THEN [open |-> 0, close |-> 0, len |-> 0]
                 ELSE [open |-> asp + 1, close |-> aclose,
                       len |-> aclose + LeadingSpace(Drop(decl, aclose))])
        ELSE [open |-> 0, close |-> 0, len |-> 0])

\* lines 73-80: decl is what follows the doc comment
InsertAfterDocstring(decl, new_attr) ==
    Let(AttributesMatch(decl), LAMBDA match :
        <<T("@[")>>
        \o (IF match.close # 0
            THEN SubSeq(decl, match.open + 1, match.close - 1) \o <<T(","), SP>> \o new_attr
            ELSE new_attr)
        \o <<T("]"), NL>> \o Drop(decl, match.len))

\* lines 66-80: decl is what follows the clauses
InsertAfterModifiers(decl, new_attr) ==
    Let(DocstringMatch(decl), LAMBDA docstring :
        Take(decl, docstring) \o InsertAfterDocstring(Drop(decl, docstring), new_attr))

\* lines 29-80
insert_attributes(decl0, new_attr) ==
    IF decl0 # <<>> /\ decl0[1].k = "to_additive" THEN insert_to_additive(decl0, new_attr)
    ELSE Let(LeadingModifiers(decl0), LAMBDA command_modifiers :
             Take(decl0, command_modifiers)
             \o InsertAfterModifiers(Drop(decl0, command_modifiers), new_attr))

----------------------------------------------------------------------------
(* modify_lean.py: modify_source *)

HasSorry(decl) == \E j \in 1..Len(decl) : decl[j].k = "sorry"

RECURSIVE JoinPrepend(_)
JoinPrepend(prepend) ==
    IF prepend = <<>> THEN <<>>
    ELSE Head(prepend) \o <<NL, NL>> \o JoinPrepend(Tail(prepend))

\* \n((?:[a-zA-Z_]+.*? in\n)+)$  searched in pre: the length of group 1, 0 when none.
\* The search takes the leftmost newline after which only clauses follow.
TrailingModifiers(pre) ==
    Let({j \in 1..Len(pre) : pre[j].k = "nl" /\ OnlyModifiers(Drop(pre, j))}, LAMBDA starts :
        IF starts = {} THEN 0
        ELSE Len(pre) - (CHOOSE j \in starts : \A m \in starts : j <= m))

\* lines 107-112: pre and decl after the special case of lines 103-105
PrependTo(pre, decl, prepend) ==
    Let(TrailingModifiers(pre), LAMBDA n :
        [pre |-> Take(pre, Len(pre) - n),
         decl |-> JoinPrepend(prepend) \o Drop(pre, Len(pre) - n) \o decl])

\* lines 100-112: what is written between pre and post when prepend is given
WithPrepend(pre, decl, prepend) ==
    IF pre # <<>> /\ pre[Len(pre)].k = "@[" /\ decl # <<>> /\ decl[1].k = "to_additive"
    THEN PrependTo(Take(pre, Len(pre) - 1), <<T("@[")>> \o decl, prepend)
    ELSE PrependTo(pre, decl, prepend)

\* a decision that takes `sorry` as a reason to write the statement uses of every node
WithAttributeAnyProof(node, decl, add_uses0, sorry) ==
    LET add_uses1 == add_uses0 \/ sorry
        add_proof_uses == add_uses1 \/ (node.proof # NoProof /\ sorry)
    IN  insert_attributes(decl, to_lean_attribute(node, TRUE, add_uses1, TRUE, add_proof_uses))

\* lines 92-98: the declaration with the attribute of the node
WithAttribute(node, decl, add_uses0, sorry) ==
    LET add_uses1 == add_uses0 \/ (node.proof = NoProof /\ sorry)
        add_proof_uses == add_uses1 \/ (node.proof # NoProof /\ sorry)
    IN  insert_attributes(decl, to_lean_attribute(node, TRUE, add_uses1, TRUE, add_proof_uses))

\* lines 89-114: the text of the file after the call.  write_blueprint_attributes
\* always passes a list as prepend.
modify_source(node, text, location, add_uses0, prepend) ==
    Let(split_declaration(text, location), LAMBDA sp :
    Let(WithPrepend(sp.pre, WithAttribute(node, sp.decl, add_uses0, HasSorry(sp.decl)),
                    prepend),
        LAMBDA w : w.pre \o w.decl \o sp.post))

\* an insertion at the top of the file, wherever its imports are
add_import_at_top(text) == <<T("import Architect"), NL>> \o text

\* lines 117-128
add_lean_architect_import(text) ==
    LET first == {l \in 1..Len(text) :
                     /\ text[l].k = "import"
                     /\ (l = 1 \/ text[l - 1].k = "nl")}
        at == IF first = {} THEN 0
              ELSE (CHOOSE l \in first : \A m \in first : l <= m) - 1
    IN  Take(text, at) \o <<T("import Architect"), NL>> \o Drop(text, at)

----------------------------------------------------------------------------
(* modify_lean.py: topological_sort *)

\* name_to_node[name]: the last node of that name
NodeNamed(ns, name) ==
    ns[CHOOSE n \in 1..Len(ns) :
          /\ ns[n].name = name
          /\ \A m \in 1..Len(ns) : ns[m].name = name => m <= n]

\* lines 137-146; st is (visited, result), k the position of the loop of line 143
RECURSIVE visit(_, _, _), visit_uses(_, _, _, _)
\* a visit that appends the node before it visits the nodes it uses
visit_preorder(ns, name, st) ==
    IF name \in st.visited THEN st
    ELSE LET node == NodeNamed(ns, name)
         IN  visit_uses(ns, node, 1, [visited |-> st.visited \cup {name},
                                      result |-> Append(st.result, node)])

\* a visit that leaves out a node that uses a node still being visited
visit_rejecting_cycles(ns, name, st) ==
    IF name \in st.visited THEN st
    ELSE LET st1 == [st EXCEPT !.visited = @ \cup {name}]
             node == NodeNamed(ns, name)
             st2 == visit_uses(ns, node, 1, st1)
             closes_cycle == \E k \in 1..Len(ns) :
                                /\ ns[k].latex_label \in Uses(node)
                                /\ ns[k].name \in st2.visited
                                /\ ns[k] \notin SeqToSet(st2.result)
         IN  IF closes_cycle THEN st2 ELSE [st2 EXCEPT !.result = Append(@, node)]

visit(ns, name, st) ==
    IF name \in st.visited THEN st
    ELSE LET st1 == [st EXCEPT !.visited = @ \cup {name}]
             node == NodeNamed(ns, name)
             st2 == visit_uses(ns, node, 1, st1)
         IN  [st2 EXCEPT !.result = Append(@, node)]
visit_uses(ns, node, k, st) ==
    IF k > Len(ns) THEN st
    ELSE visit_uses(ns, node, k + 1,
                    IF ns[k].latex_label \in Uses(node)
                    THEN visit(ns, ns[k].name, st) ELSE st)

RECURSIVE visit_all(_, _, _)
visit_all(ns, k, st) ==
    IF k > Len(ns) THEN st
    ELSE visit_all(ns, k + 1, visit(ns, ns[k].name, st))

\* lines 131-151
topological_sort(ns) == visit_all(ns, 1, [visited |-> {}, result |-> <<>>]).result

----------------------------------------------------------------------------
(* modify_lean.py: write_blueprint_attributes, the plan (lines 160-225) *)

\* args.modules
modules == {"Foo"}

NoLocation == [module |-> "<None>", line |-> 0, column |-> 0, end_line |-> 0, end_column |-> 0]

\* location.module.split(".")[0]: module names are written without their submodules
is_upstream(node) == node.location # NoLocation /\ node.location.module \notin modules
is_informal(node) == node.location = NoLocation

\* the sort key of lines 168-169
LocationKey(node) ==
    IF node.location # NoLocation THEN <<node.location.module, node.location.line>>
    ELSE <<"", 0>>

\* the order of the module names as strings
ModuleRank(m) == CASE m = "" -> 0 [] m = "Foo" -> 1 [] m = "Mathlib" -> 2 [] OTHER -> 3

KeyLess(a, b) ==
    \/ ModuleRank(a[1]) < ModuleRank(b[1])
    \/ a[1] = b[1] /\ a[2] < b[2]

\* sorted(nodes, key=..., reverse=True): descending, and stable (equal keys keep the
\* order of the input)
RECURSIVE InsertByKey(_, _)
InsertByKey(sorted, node) ==
    IF sorted = <<>> THEN <<node>>
    ELSE IF KeyLess(LocationKey(Head(sorted)), LocationKey(node))
         THEN <<node>> \o sorted
         ELSE <<Head(sorted)>> \o InsertByKey(Tail(sorted), node)

\* sorted(nodes, key=...) without reverse=True: ascending
RECURSIVE SortedAscending(_)
SortedAscending(ns) ==
    IF ns = <<>> THEN <<>>
    ELSE Reverse(InsertByKey(Reverse(SortedAscending(Take(ns, Len(ns) - 1))), ns[Len(ns)]))

RECURSIVE SortedByLocation(_)
SortedByLocation(ns) ==
    IF ns = <<>> THEN <<>>
    ELSE InsertByKey(SortedByLocation(Take(ns, Len(ns) - 1)), ns[Len(ns)])

\* ', '.join(_quote(use) for use in uses)
UsesList(uses) == Tok("list", "", uses)

\* lines 178-198
upstream_or_informal_to_lean(node, informal) ==
    IF node.location # NoLocation
    THEN <<T("attribute [")>> \o to_lean_attribute(node, TRUE, FALSE, TRUE, FALSE)
         \o <<T("]"), NL, Tok("name", node.name, {})>>
    ELSE IF informal
    THEN <<T("@[")>> \o to_lean_attribute(node, TRUE, FALSE, FALSE, FALSE) \o <<T("]"), NL>>
         \o (IF node.proof = NoProof
             THEN <<Tok("def", node.name, {}), NL, T("sorry_using"),
                    UsesList(node.statement.uses)>>
             ELSE <<Tok("theorem", node.name, {}), T("sorry_using"),
                    UsesList(node.proof.uses), NL>>
                  \o (IF node.proof.text # ""
                      THEN <<Tok("docstring", node.proof.text, {}), NL>> ELSE <<>>)
                  \o <<T("sorry_using"), UsesList(node.statement.uses)>>)
    ELSE <<>>

\* a host search that takes the first user whether it is ok or not
FirstUser(order, node) ==
    LET hosts == {k \in 1..Len(order) : node.latex_label \in Uses(order[k])}
    IN  IF hosts = {} THEN 0 ELSE CHOOSE k \in hosts : \A m \in hosts : k <= m

\* lines 210-218: the first node of the order that uses `node` and is ok; 0 when none
FirstHost(order, node) ==
    LET hosts == {k \in 1..Len(order) :
                     node.latex_label \in Uses(order[k]) /\ lean_ok(order[k])}
    IN  IF hosts = {} THEN 0 ELSE CHOOSE k \in hosts : \A m \in hosts : k <= m

\* a loop whose fallback runs for every node, as if the `else` of line 217 belonged
\* to no loop
RECURSIVE PlaceNodesAlwaysExtra(_, _, _, _, _)
PlaceNodesAlwaysExtra(order, k, st, convert_upstream, informal) ==
    IF k > Len(order) THEN st
    ELSE LET node == order[k]
             host == FirstHost(order, node)
             st1 == IF host # 0
                    THEN [st EXCEPT !.prepends[order[host].name] = Append(@, node)]
                    ELSE st
             st2 == IF (convert_upstream /\ is_upstream(node)) \/ (informal /\ is_informal(node))
                    THEN [st1 EXCEPT !.extra_nodes = Append(@, node)]
                    ELSE st
         IN  PlaceNodesAlwaysExtra(order, k + 1, st2, convert_upstream, informal)

\* lines 201-218; st is (prepends, extra_nodes), k the position of the loop of line 208
RECURSIVE PlaceNodes(_, _, _, _, _)
PlaceNodes(order, k, st, convert_upstream, informal) ==
    IF k > Len(order) THEN st
    ELSE LET node == order[k]
             host == FirstHost(order, node)
             st2 == IF (convert_upstream /\ is_upstream(node)) \/ (informal /\ is_informal(node))
                    THEN IF host # 0
                         THEN [st EXCEPT !.prepends[order[host].name] = Append(@, node)]
                         ELSE [st EXCEPT !.extra_nodes = Append(@, node)]
                    ELSE st
         IN  PlaceNodes(order, k + 1, st2, convert_upstream, informal)

\* lines 221-225
RECURSIVE all_prepends(_, _), all_prepends_of(_, _)
all_prepends(pre, name) ==
    IF name \in DOMAIN pre THEN all_prepends_of(pre, pre[name]) ELSE <<>>
all_prepends_of(pre, ns) ==
    IF ns = <<>> THEN <<>>
    ELSE all_prepends(pre, Head(ns).name) \o <<Head(ns)>> \o all_prepends_of(pre, Tail(ns))

----------------------------------------------------------------------------
(* Documents *)

Env(env, label, lean, uses, proves, leanok) ==
    [env |-> env, commented |-> FALSE, label |-> label, lean |-> lean, uses |-> uses,
     proves |-> proves, leanok |-> leanok, text |-> "text",
     title |-> None, notready |-> FALSE, discussion |-> None]

UsesChoices == {{}} \cup {{l} : l \in Labels}

ParseEnvs ==
    {Env("theorem", l, n, u, None, TRUE) :
        l \in Labels, n \in {<<"Foo.baz">>, <<"Foo.bar">>, <<"Foo.baz", "Foo.bar">>},
        u \in UsesChoices}
    \cup {Env("proof", None, <<>>, u, p, TRUE) :
        u \in UsesChoices, p \in Labels \cup {None}}
    \* a statement without \label, and one that stands after a % on its line
    \cup {Env("theorem", None, <<"Foo.baz">>, {}, None, TRUE),
          [Env("theorem", "t0", <<"Foo.baz">>, {}, None, TRUE) EXCEPT !.commented = TRUE]}

DocsOver(envs) == UNION {[1..n -> envs] : n \in 1..MaxEnvs}

\* parse_nodes before its first statement
ParseStart ==
    /\ i = 1
    /\ match_idx_to_label = EmptyDict
    /\ nodes = <<>>
    /\ seen_lean_names = {}
    /\ seen_latex_labels = {}
    /\ label_alias = EmptyDict
    /\ label_to_source = EmptyDict
    /\ log = {}

\* write_blueprint_attributes not yet called
WriteIdle ==
    /\ nodes_with_pos = <<>>
    /\ nodes_location_order = <<>>
    /\ nodes_topological_order = <<>>
    /\ prepends = EmptyDict
    /\ extra_nodes = <<>>
    /\ modified_files = {}
    /\ modified_nodes = <<>>

NoCall == args = <<>> /\ result = <<>>

----------------------------------------------------------------------------
(* main.py: the position lookup (lines 116-141) *)

\* NodeWithPos: a node decorated by add_position_info
WithPos(node, location, file) ==
    [name |-> node.name, latex_label |-> node.latex_label, statement |-> node.statement,
     proof |-> node.proof, not_ready |-> node.not_ready, discussion |-> node.discussion,
     title |-> node.title,
     has_lean |-> location # NoLocation, location |-> location, file |-> file]

FileOf(location) == IF location = NoLocation THEN None ELSE location.module

Located(node) ==
    LET location == IF node.name \in DOMAIN lean_env THEN lean_env[node.name]
                    ELSE NoLocation
    IN  WithPos(node, location, FileOf(location))

\* `lake exe add_position_info` returns: lines 124-141
LookupReturns ==
    /\ pc = "parsed"
    /\ \E extract_only \in BOOLEAN :
          IF extract_only
          THEN pc' = "extracted" /\ nodes_with_pos' = nodes_with_pos     \* lines 133-135
          ELSE /\ pc' = "located"
               /\ nodes_with_pos' = [n \in 1..Len(nodes) |-> Located(nodes[n])]
    /\ UNCHANGED <<parseVars, optionVars, diskVars, lean_env, leanFiles0, callVars>>
    /\ UNCHANGED <<nodes_location_order, nodes_topological_order, prepends, extra_nodes,
                   modified_files, modified_nodes>>

\* the process exits with an error: check=True raises CalledProcessError
LookupFails ==
    /\ pc = "parsed"
    /\ pc' = "aborted"
    /\ UNCHANGED <<parseVars, optionVars, diskVars, lean_env, leanFiles0, writeVars, callVars>>

----------------------------------------------------------------------------
(* modify_lean.py: write_blueprint_attributes, step by step *)

\* lines 165-218
PlanWrites ==
    /\ pc = "located"
    /\ LET order == topological_sort(nodes_with_pos)
           placed == PlaceNodes(order, 1,
                                [prepends |-> [n \in {nodes_with_pos[k].name :
                                                       k \in 1..Len(nodes_with_pos)} |-> <<>>],
                                 extra_nodes |-> <<>>],
                                TRUE, convert_informal)
       IN  /\ nodes_location_order' = SortedByLocation(nodes_with_pos)
           /\ nodes_topological_order' = order
           /\ prepends' = placed.prepends
           /\ extra_nodes' = placed.extra_nodes
    /\ modified_files' = {}
    /\ modified_nodes' = <<>>
    /\ i' = 1
    /\ pc' = IF nodes_with_pos = <<>> THEN "extra" ELSE "rewrite"
    /\ UNCHANGED <<source, match_idx_to_label, nodes, seen_lean_names, seen_latex_labels,
                   label_alias, label_to_source, log>>
    /\ UNCHANGED <<optionVars, diskVars, lean_env, leanFiles0, nodes_with_pos, callVars>>

RECURSIVE MapToLean(_, _)
MapToLean(ns, informal) ==
    IF ns = <<>> THEN <<>>
    ELSE <<upstream_or_informal_to_lean(Head(ns), informal)>> \o MapToLean(Tail(ns), informal)

\* lines 231-243: one iteration of the main loop
RewriteNode ==
    /\ pc = "rewrite"
    /\ LET node == nodes_location_order[i] IN
       IF is_upstream(node) \/ is_informal(node)
       THEN UNCHANGED <<leanFiles, modified_files, modified_nodes>>
       ELSE LET prepend_nodes == all_prepends(prepends, node.name) IN
            /\ leanFiles' = [leanFiles EXCEPT ![node.file] =
                                modify_source(node, @, node.location, add_uses,
                                              MapToLean(prepend_nodes, convert_informal))]
            /\ modified_files' = modified_files \cup {node.file}
            /\ modified_nodes' = Append(modified_nodes, node) \o prepend_nodes
    /\ IF i < Len(nodes_location_order)
       THEN i' = i + 1 /\ pc' = pc
       ELSE i' = 1 /\ pc' = "extra"
    /\ UNCHANGED <<source, match_idx_to_label, nodes, seen_lean_names, seen_latex_labels,
                   label_alias, label_to_source, log>>
    /\ UNCHANGED <<optionVars, texFile, macrosFile, lean_env, leanFiles0, callVars>>
    /\ UNCHANGED <<nodes_with_pos, nodes_location_order, nodes_topological_order,
                   prepends, extra_nodes>>

\* args.root_file
root_file == "extra_nodes.lean"

RECURSIVE JoinBlank(_)
JoinBlank(texts) ==
    IF texts = <<>> THEN <<>>
    ELSE IF Len(texts) = 1 THEN Head(texts)
    ELSE Head(texts) \o <<NL, NL>> \o JoinBlank(Tail(texts))

\* lines 246-263
WriteExtraNodes ==
    /\ pc = "extra"
    /\ IF extra_nodes # <<>>
       THEN LET existing == IF root_file \in DOMAIN leanFiles THEN leanFiles[root_file]
                            ELSE <<>>
            IN  /\ leanFiles' = DictSet(leanFiles, root_file,
                                        existing \o <<NL, NL>>
                                        \o JoinBlank(MapToLean(extra_nodes, convert_informal))
                                        \o <<NL>>)
                /\ modified_files' = modified_files \cup {root_file}
                /\ modified_nodes' = modified_nodes \o extra_nodes
       ELSE UNCHANGED <<leanFiles, modified_files, modified_nodes>>
    /\ pc' = "imports"
    /\ UNCHANGED <<parseVars, optionVars, texFile, macrosFile, lean_env, leanFiles0, callVars>>
    /\ UNCHANGED <<nodes_with_pos, nodes_location_order, nodes_topological_order,
                   prepends, extra_nodes>>

\* lines 265-271
AddImports ==
    /\ pc = "imports"
    /\ leanFiles' = [f \in DOMAIN leanFiles |->
                        IF f \in modified_files THEN add_lean_architect_import(leanFiles[f])
                        ELSE leanFiles[f]]
    /\ pc' = IF Cardinality({modified_nodes[n].name : n \in 1..Len(modified_nodes)})
                  = Len(modified_nodes)
             THEN "written" ELSE "assertion_failed"
    /\ UNCHANGED <<parseVars, optionVars, texFile, macrosFile, lean_env, leanFiles0,
                   writeVars, callVars>>

----------------------------------------------------------------------------
(* modify_latex.py: write_latex_source *)

\* \inputleannode{label}
InputLeanNode(label) ==
    [env |-> "inputleannode", commented |-> FALSE, label |-> label, lean |-> <<>>,
     uses |-> {}, proves |-> None, leanok |-> FALSE, text |-> "",
     title |-> None, notready |-> FALSE, discussion |-> None]

\* file_content.replace(s, t): every block equal to s becomes the blocks t
RECURSIVE Replace(_, _, _)
Replace(content, block, t) ==
    IF content = <<>> THEN <<>>
    ELSE (IF Head(content) = block THEN t ELSE <<Head(content)>>)
         \o Replace(Tail(content), block, t)

RECURSIVE ReplaceAll(_, _, _)
ReplaceAll(content, blocks, t) ==
    IF blocks = <<>> THEN content
    ELSE ReplaceAll(Replace(content, Head(blocks), t), Tail(blocks), t)

\* lines 17-25: the file after the blocks of one node are replaced
ReplaceNode(content, node, raw) ==
    ReplaceAll(ReplaceAll(content, raw[node.latex_label].statements,
                          <<InputLeanNode(node.latex_label)>>),
               raw[node.latex_label].proofs, <<>>)

RECURSIVE ReplaceNodes(_, _, _)
ReplaceNodes(content, ns, raw) ==
    IF ns = <<>> THEN content
    ELSE ReplaceNodes(ReplaceNode(content, Head(ns), raw), Tail(ns), raw)

\* a write_latex_source that runs on the parsed nodes, ahead of the position lookup
WriteLatexSourceEarly ==
    /\ pc = "parsed" /\ macrosFile = <<>>
    /\ texFile' = ReplaceNodes(texFile, nodes, label_to_source)
    /\ macrosFile' = macrosFile \o <<"common_macros">>
    /\ pc' = pc
    /\ UNCHANGED <<parseVars, optionVars, leanFiles, lean_env, leanFiles0, writeVars, callVars>>

\* lines 15-39
WriteLatexSource ==
    /\ pc = "written"
    /\ texFile' = ReplaceNodes(texFile, modified_nodes, label_to_source)
    /\ macrosFile' = macrosFile \o <<"common_macros">>
    /\ pc' = "done"
    /\ UNCHANGED <<parseVars, optionVars, leanFiles, lean_env, leanFiles0, writeVars, callVars>>

----------------------------------------------------------------------------
(* main.py: a whole run *)

\* the declaration of a Lean name in a file of the project
Declaration(name) == <<Tok("decl", name, {}), NL>>

\* module Foo: an import line, then the declarations of the names it defines
RECURSIVE Declarations(_)
Declarations(names) ==
    IF names = <<>> THEN <<>> ELSE Declaration(Head(names)) \o Declarations(Tail(names))

FooFile(names) == <<T("import"), NL>> \o Declarations(names)

LocationAt(module, line) ==
    [module |-> module, line |-> line, column |-> 0, end_line |-> line, end_column |-> 1]

\* the Lean environments of the model: where each name lives
Worlds ==
    {w \in [Names -> {"local", "upstream", "none"}] : TRUE}

NameOrder == <<"Foo.baz", "Foo.bar">>

LocalNames(w) ==
    LET keep(s) == IF w[s] = "local" THEN <<s>> ELSE <<>>
    IN  keep(NameOrder[1]) \o keep(NameOrder[2])

IndexIn(seq, x) == CHOOSE k \in 1..Len(seq) : seq[k] = x

EnvOf(w) ==
    [n \in Names |->
        CASE w[n] = "local" -> LocationAt("Foo", 1 + IndexIn(LocalNames(w), n))
          [] w[n] = "upstream" -> LocationAt("Mathlib", 1 + IndexIn(NameOrder, n))
          [] OTHER -> NoLocation]

\* the documents of a whole run: t0 and t2 declare Foo.baz, t1 declares Foo.bar
MainEnvs ==
    {Env("theorem", "t0", <<"Foo.baz">>, u, None, ok) : u \in {{}, {"t1"}}, ok \in BOOLEAN}
    \cup {Env("theorem", "t1", <<"Foo.bar">>, u, None, ok) :
             u \in {{}, {"t0"}, {"t2"}}, ok \in BOOLEAN}
    \cup {Env("theorem", "t2", <<"Foo.baz">>, {}, None, TRUE)}
    \cup {Env("proof", None, <<>>, {}, None, ok) : ok \in BOOLEAN}

Init ==
    /\ pc = "statements"
    /\ source \in DocsOver(MainEnvs)
    /\ texFile = source
    /\ macrosFile = <<>>
    /\ convert_informal \in BOOLEAN
    /\ add_uses = FALSE
    /\ \E w \in Worlds :
          /\ lean_env = EnvOf(w)
          /\ leanFiles = [f \in {"Foo"} |-> FooFile(LocalNames(w))]
    /\ leanFiles0 = leanFiles
    /\ ParseStart /\ WriteIdle /\ NoCall

Next ==
    \/ ParseStatement
    \/ ParseProof
    \/ ClearSelfLoops
    \/ LookupReturns
    \/ LookupFails
    \/ PlanWrites
    \/ RewriteNode
    \/ WriteExtraNodes
    \/ AddImports
    \/ WriteLatexSource

Spec == Init /\ [][Next]_vars

\* parse_nodes alone, on every document of the bound
InitParse ==
    /\ pc = "statements"
    /\ source \in DocsOver(ParseEnvs)
    /\ texFile = source
    /\ macrosFile = <<>>
    /\ convert_informal = FALSE
    /\ add_uses = FALSE
    /\ lean_env = EmptyDict
    /\ leanFiles = EmptyDict
    /\ leanFiles0 = leanFiles
    /\ ParseStart /\ WriteIdle /\ NoCall

NextParse == ParseStatement \/ ParseProof \/ ClearSelfLoops

SpecParse == InitParse /\ [][NextParse]_vars

----------------------------------------------------------------------------
(* topological_sort on every node list of the bound *)

\* Longest node list given to topological_sort.
MaxNodes == 3

TopoLabel == [n \in {"A", "B", "C"} |-> CASE n = "A" -> "a" [] n = "B" -> "b" [] OTHER -> "c"]
TopoUses == {{}} \cup {{TopoLabel[n]} : n \in DOMAIN TopoLabel}

\* the proof of a node: none, or one with the given uses
ProofChoices == {[has |-> FALSE, uses |-> {}]} \cup {[has |-> TRUE, uses |-> u] : u \in TopoUses}

TopoNode(name, su, p) ==
    LET node == Node(name, TopoLabel[name], NodePart(TRUE, "text", su, "theorem"),
                     None, FALSE, None)
    IN  WithPos([node EXCEPT !.proof = IF p.has THEN NodePart(TRUE, "text", p.uses, "proof")
                                       ELSE NoProof],
                NoLocation, None)

\* the lists of nodes with unique names
\* the lists of the bound, built name by name
NodeListsOf(names) ==
    {[k \in 1..Len(names) |-> TopoNode(names[k], f[k].su, f[k].p)] :
        f \in [1..Len(names) -> [su : TopoUses, p : ProofChoices]]}

NameLists ==
    {names \in UNION {[1..n -> DOMAIN TopoLabel] : n \in 1..MaxNodes} :
        \A j, k \in 1..Len(names) : j # k => names[j] # names[k]}

Idle ==
    /\ source = <<>> /\ texFile = <<>> /\ macrosFile = <<>>
    /\ convert_informal = FALSE /\ add_uses = FALSE
    /\ lean_env = EmptyDict /\ leanFiles = EmptyDict /\ leanFiles0 = EmptyDict
    /\ ParseStart /\ WriteIdle

InitTopo ==
    /\ pc = "sort"
    /\ \E names \in NameLists : args \in NodeListsOf(names)
    /\ result = <<>>
    /\ Idle

\* nodes_topological_order = topological_sort(nodes)
TopologicalSort ==
    /\ pc = "sort"
    /\ result' = topological_sort(args)
    /\ pc' = "sorted"
    /\ UNCHANGED <<parseVars, optionVars, diskVars, lean_env, leanFiles0, writeVars, args>>

NextTopo == TopologicalSort

SpecTopo == InitTopo /\ [][NextTopo]_vars

----------------------------------------------------------------------------
(* write_blueprint_attributes on files with two declarations *)

ModifierClause == <<T("modifier"), NL>>                   \* open Foo in
DocComment == <<T("/--"), T("word"), T("-/"), NL>>
AttributeList == <<T("@["), T("word"), T("]"), NL>>

Layouts == [mods : 0..1, doc : BOOLEAN, attr : BOOLEAN]

Block(l, name) ==
    (IF l.mods = 1 THEN ModifierClause ELSE <<>>)
    \o (IF l.doc THEN DocComment ELSE <<>>)
    \o (IF l.attr THEN AttributeList ELSE <<>>)
    \o Declaration(name)

Lines(l) == l.mods + (IF l.doc THEN 1 ELSE 0) + (IF l.attr THEN 1 ELSE 0) + 1

\* the range Lean reports for a block that starts at line `first`: from its doc
\* comment or attribute list to the end of the declaration, the clauses left out
BlockRange(l, first) ==
    [module |-> "Foo", line |-> first + l.mods, column |-> 0,
     end_line |-> first + Lines(l) - 1, end_column |-> 1]

\* the upstream or informal node of the run, of label t2
Other(kind) ==
    WithPos(Node("Nat.succ", "t2", NodePart(TRUE, "text", {}, "theorem"), None, FALSE, None),
            IF kind = "upstream" THEN LocationAt("Mathlib", 5) ELSE NoLocation,
            IF kind = "upstream" THEN "Mathlib" ELSE None)

Local(name, label, uses, location) ==
    WithPos(Node(name, label, NodePart(TRUE, "text", uses, "theorem"), None, FALSE, None),
            location, "Foo")

Orders(S) ==
    {p \in [1..Cardinality(S) -> S] : \A j, k \in 1..Cardinality(S) : j # k => p[j] # p[k]}

\* what stands before the declarations of module Foo: nothing, an import line, or a
\* comment line and two import lines
Headers == {<<>>, <<T("import"), NL>>, <<T("word"), NL, T("import"), NL, T("import"), NL>>}

HeaderLines(header) == Cardinality({k \in 1..Len(header) : header[k] = NL})

\* a file of the project that holds no node of the blueprint
BystanderFile == <<T("import"), NL>> \o Declaration("Foo.qux")

InitRewrite ==
    /\ pc = "located"
    /\ source = <<>> /\ texFile = <<>> /\ macrosFile = <<>>
    /\ convert_informal \in BOOLEAN
    /\ add_uses = FALSE
    /\ \E l1, l2 \in Layouts, u1, u2 \in {{}, {"t2"}}, kind \in {"absent", "upstream", "informal"},
          header \in Headers :
          LET r1 == BlockRange(l1, 1 + HeaderLines(header))
              r2 == BlockRange(l2, 1 + HeaderLines(header) + Lines(l1))
              locals == {Local("Foo.baz", "t0", u1, r1), Local("Foo.bar", "t1", u2, r2)}
          IN  /\ kind = "absent" => u1 = {} /\ u2 = {}
              /\ leanFiles = [f \in {"Foo", "Foo.Basic"} |->
                                IF f = "Foo"
                                THEN header \o Block(l1, "Foo.baz") \o Block(l2, "Foo.bar")
                                ELSE BystanderFile]
              /\ lean_env = [n \in Names |-> IF n = "Foo.baz" THEN r1 ELSE r2]
              /\ nodes_with_pos \in
                    Orders(locals \cup (IF kind = "absent" THEN {} ELSE {Other(kind)}))
    /\ leanFiles0 = leanFiles
    /\ ParseStart
    /\ nodes_location_order = <<>> /\ nodes_topological_order = <<>>
    /\ prepends = EmptyDict /\ extra_nodes = <<>>
    /\ modified_files = {} /\ modified_nodes = <<>>
    /\ NoCall

NextRewrite == PlanWrites \/ RewriteNode \/ WriteExtraNodes \/ AddImports

SpecRewrite == InitRewrite /\ [][NextRewrite]_vars

----------------------------------------------------------------------------
(* make_docstring on every text of the bound *)

\* Most words of a line, most lines of a text.
MaxWords == 2
MaxLines == 2

Words ==
    {Word(3, "no"), Word(3, "inner"), Word(3, "leading"), Word(45, "no"), Word(97, "no"),
     Word(101, "no")}

TextLines ==
    {TextLine(indent, words) :
        indent \in {0, 2}, words \in UNION {[1..n -> Words] : n \in 1..MaxWords}}

Texts == UNION {[1..n -> TextLines] : n \in 1..MaxLines}

\* the calls of the scripts: (indent, start_column) of to_lean_attribute, for the
\* statement and for the proof (--docstring_indent 4, the default, and 0), and of
\* upstream_or_informal_to_lean
Calls == {<<4, 16>>, <<4, 12>>, <<0, 16>>, <<2, 2>>}

InitWrap ==
    /\ pc = "wrap"
    /\ args \in {[text |-> t, indent |-> c[1], style |-> st, start_column |-> c[2]] :
                    t \in Texts, c \in Calls, st \in {"hanging", "compact"}}
    /\ result = <<>>
    /\ Idle

MakeDocstring ==
    /\ pc = "wrap"
    /\ result' = make_docstring(args.text, args.indent, args.style, args.start_column)
    /\ pc' = "wrapped"
    /\ UNCHANGED <<parseVars, optionVars, diskVars, lean_env, leanFiles0, writeVars, args>>

NextWrap == MakeDocstring

SpecWrap == InitWrap /\ [][NextWrap]_vars

----------------------------------------------------------------------------
(* insert_attributes on declarations made of clauses, doc comment, attributes, body *)

ModifierChoices == {<<>>, ModifierClause, ModifierClause \o ModifierClause}

DocChoices == {<<>>, DocComment, <<T("/--"), T("word"), NL, T("word"), T("-/"), NL>>}

\* the inside of an existing attribute list: simp; simp, norm_num; and
\* aesop (rule_sets := [X]), which holds a closing bracket of its own
AttrChoices ==
    {<<>>,
     <<T("word")>>,
     <<T("word"), T(","), SP, T("word")>>,
     <<T("word"), SP, T("("), T("["), T("word"), T("]"), T(")")>>}

BodyChoices ==
    {<<Tok("decl", "Foo.bar", {})>>,
     <<T("word"), SP, Tok("decl", "Foo.bar", {})>>,                 \* private theorem ...
     <<Tok("decl", "Foo.bar", {}), NL, SP, T("sorry")>>}

\* the attribute list as it is written before the body
WrittenAttributes(attrs, sep) ==
    IF attrs = <<>> THEN <<>> ELSE <<T("@[")>> \o attrs \o <<T("]"), sep>>

NewAttribute == <<T("blueprint"), NL, Tok("label", "t1", {})>>

InitInsert ==
    /\ pc = "insert"
    /\ args \in {[mods |-> m, doc |-> d, attrs |-> a, sep |-> sep, body |-> b,
                  new_attr |-> NewAttribute] :
                    m \in ModifierChoices, d \in DocChoices, a \in AttrChoices,
                    sep \in {NL, SP}, b \in BodyChoices}
    /\ result = <<>>
    /\ Idle

\* the text of the declaration the call is given
Decl(a) == a.mods \o a.doc \o WrittenAttributes(a.attrs, a.sep) \o a.body

InsertAttributes ==
    /\ pc = "insert"
    /\ result' = insert_attributes(Decl(args), args.new_attr)
    /\ pc' = "inserted"
    /\ UNCHANGED <<parseVars, optionVars, diskVars, lean_env, leanFiles0, writeVars, args>>

NextInsert == InsertAttributes

SpecInsert == InitInsert /\ [][NextInsert]_vars

----------------------------------------------------------------------------
(* modify_source on a file with one declaration of the node and one after it *)

\* the node of the call: Foo.bar of label t1, with or without a proof
ModifyNode(su, p, env, location) ==
    LET node == Node("Foo.bar", "t1", NodePart(TRUE, "text", su, env), None, FALSE, None)
    IN  WithPos([node EXCEPT !.proof = IF p.has THEN NodePart(TRUE, "text", p.uses, "proof")
                                       ELSE NoProof],
                location, "Foo")

ModifyProofs == {[has |-> FALSE, uses |-> {}], [has |-> TRUE, uses |-> {}],
                 [has |-> TRUE, uses |-> {"t2"}]}

\* the declaration of Foo.bar, its body `sorry` or not, on one line
ModifyBody(sorry) ==
    <<Tok("decl", "Foo.bar", {})>> \o (IF sorry THEN <<SP, T("sorry")>> ELSE <<>>)

\* the declaration that follows it in the file
NextDeclaration(sorry) ==
    <<Tok("decl", "Foo.qux", {})>> \o (IF sorry THEN <<SP, T("sorry")>> ELSE <<>>) \o <<NL>>

\* the file of the call
ModifyText(a) ==
    <<T("import"), NL>>
    \o (IF a.layout.mods = 1 THEN ModifierClause ELSE <<>>)
    \o (IF a.layout.doc THEN DocComment ELSE <<>>)
    \o (IF a.layout.attr THEN AttributeList ELSE <<>>)
    \o ModifyBody(a.sorry) \o <<NL>> \o NextDeclaration(a.sorry_after)

\* the range Lean reports for the declaration of Foo.bar in that file
ModifyRange(layout, sorry) ==
    [BlockRange(layout, 2) EXCEPT !.end_column = Len(ModifyBody(sorry))]

InitModify ==
    /\ pc = "modify"
    /\ args \in {[node |-> ModifyNode(su, p, "theorem", ModifyRange(l, sorry)), layout |-> l,
                  sorry |-> sorry, sorry_after |-> after, add_uses |-> forced] :
                    su \in {{}, {"t0"}}, p \in ModifyProofs, l \in Layouts,
                    sorry \in BOOLEAN, after \in BOOLEAN, forced \in BOOLEAN}
    /\ result = <<>>
    /\ Idle

\* modify_source(node, file, node.location, add_uses, ..., prepend=[])
ModifySource ==
    /\ pc = "modify"
    /\ result' = modify_source(args.node, ModifyText(args), args.node.location,
                               args.add_uses, <<>>)
    /\ pc' = "modified"
    /\ UNCHANGED <<parseVars, optionVars, diskVars, lean_env, leanFiles0, writeVars, args>>

NextModify == ModifySource

SpecModify == InitModify /\ [][NextModify]_vars

----------------------------------------------------------------------------
(* Node.to_lean_attribute on nodes of every shape *)

\* the environments of a statement: the two defaults and one that is neither
StatementEnvs == {"definition", "theorem", "lemma"}

AttributeNode(env, su, p, title, not_ready, discussion) ==
    LET node == Node("Foo.bar", "t1", NodePart(TRUE, "text", su, env),
                     title, not_ready, discussion)
    IN  [node EXCEPT !.proof = IF p.has THEN NodePart(TRUE, "text", p.uses, "proof")
                               ELSE NoProof]

InitAttribute ==
    /\ pc = "attribute"
    /\ args \in {[node |-> AttributeNode(env, su, p, title, not_ready, discussion),
                  add_uses |-> au, add_proof_uses |-> apu, add_proof_text |-> apt] :
                    env \in StatementEnvs, su \in {{}, {"t0"}}, p \in ModifyProofs,
                    title \in {None, "", "title"}, not_ready \in BOOLEAN,
                    discussion \in {None, "0", "3"},
                    au \in BOOLEAN, apu \in BOOLEAN, apt \in BOOLEAN}
    /\ result = <<>>
    /\ Idle

\* node.to_lean_attribute(add_uses=..., add_proof_text=..., add_proof_uses=...)
ToLeanAttribute ==
    /\ pc = "attribute"
    /\ result' = to_lean_attribute(args.node, TRUE, args.add_uses, args.add_proof_text,
                                   args.add_proof_uses)
    /\ pc' = "attributed"
    /\ UNCHANGED <<parseVars, optionVars, diskVars, lean_env, leanFiles0, writeVars, args>>

NextAttribute == ToLeanAttribute

SpecAttribute == InitAttribute /\ [][NextAttribute]_vars

----------------------------------------------------------------------------
(* write_blueprint_attributes on three nodes of any kind and any uses *)

PlaceNames == <<"Foo.baz", "Foo.bar", "Nat.succ">>
PlaceLabels == <<"t0", "t1", "t2">>

\* what is drawn for each node: where the lookup found it, what its statement uses,
\* whether it is \leanok
PlaceChoices == [kind : {"local", "upstream", "informal"}, uses : UsesChoices, ok : BOOLEAN]

\* the names of the nodes drawn as local, in the order of the list
RECURSIVE LocalsOf(_, _)
LocalsOf(f, k) ==
    IF k > Len(PlaceNames) THEN <<>>
    ELSE (IF f[k].kind = "local" THEN <<PlaceNames[k]>> ELSE <<>>) \o LocalsOf(f, k + 1)

PlaceNode(f, k) ==
    LET node == Node(PlaceNames[k], PlaceLabels[k],
                     NodePart(f[k].ok, "text", f[k].uses, "theorem"), None, FALSE, None)
    IN  CASE f[k].kind = "local" ->
                WithPos(node, LocationAt("Foo", 1 + IndexIn(LocalsOf(f, 1), PlaceNames[k])),
                        "Foo")
          [] f[k].kind = "upstream" -> WithPos(node, LocationAt("Mathlib", k), "Mathlib")
          [] OTHER -> WithPos(node, NoLocation, None)

InitPlace ==
    /\ pc = "located"
    /\ source = <<>> /\ texFile = <<>> /\ macrosFile = <<>>
    /\ convert_informal \in BOOLEAN
    /\ add_uses = FALSE
    /\ \E f \in [1..Len(PlaceNames) -> PlaceChoices] :
          /\ nodes_with_pos = [k \in 1..Len(PlaceNames) |-> PlaceNode(f, k)]
          /\ leanFiles = [file \in {"Foo"} |-> FooFile(LocalsOf(f, 1))]
    /\ lean_env = EmptyDict
    /\ leanFiles0 = leanFiles
    /\ ParseStart
    /\ nodes_location_order = <<>> /\ nodes_topological_order = <<>>
    /\ prepends = EmptyDict /\ extra_nodes = <<>>
    /\ modified_files = {} /\ modified_nodes = <<>>
    /\ NoCall

NextPlace == PlanWrites \/ RewriteNode \/ WriteExtraNodes \/ AddImports

SpecPlace == InitPlace /\ [][NextPlace]_vars

----------------------------------------------------------------------------
(* a whole run on documents of four blocks, some of them equal *)

\* the blocks: the statements of Foo.baz and of Foo.bar, a statement without \lean,
\* and a proof
LatexEnvs ==
    {Env("theorem", "t0", <<"Foo.baz">>, {}, None, TRUE),
     Env("theorem", "t1", <<"Foo.bar">>, {}, None, TRUE),
     Env("theorem", "t2", <<>>, {}, None, TRUE),
     Env("proof", None, <<>>, {}, None, TRUE)}

InitLatex ==
    /\ pc = "statements"
    /\ source \in [1..4 -> LatexEnvs]
    /\ texFile = source
    /\ macrosFile = <<>>
    /\ convert_informal \in BOOLEAN
    /\ add_uses = FALSE
    /\ \E w \in Worlds :
          /\ lean_env = EnvOf(w)
          /\ leanFiles = [f \in {"Foo"} |-> FooFile(LocalNames(w))]
    /\ leanFiles0 = leanFiles
    /\ ParseStart /\ WriteIdle /\ NoCall

SpecLatex == InitLatex /\ [][Next]_vars

----------------------------------------------------------------------------
(* Claims about parse_nodes *)

\* the statement environments of the document that declare `name`
Declaring(name) ==
    {j \in 1..Len(source) :
        /\ source[j].env # "proof" /\ ~source[j].commented /\ source[j].label # None
        /\ name \in SeqToSet(source[j].lean)}

MinOf(S) == CHOOSE x \in S : \A y \in S : x <= y

NodesNamed(name) == {n \in 1..Len(nodes) : nodes[n].name = name}

\* C1: when statement environments with different labels declare the same Lean name,
\* parse_nodes returns exactly one node of that name, with the label of the first of
\* them, whose statement uses are the union of their uses without that label.
C1_MergedNode ==
    pc = "parsed" =>
        \A name \in Names :
            LET D == Declaring(name) IN
            (\E j, k \in D : source[j].label # source[k].label) =>
                /\ Cardinality(NodesNamed(name)) = 1
                /\ \A n \in NodesNamed(name) :
                      /\ nodes[n].latex_label = source[MinOf(D)].label
                      /\ nodes[n].statement.uses =
                            UNION {source[j].uses : j \in D} \ {nodes[n].latex_label}

\* two environments of different labels declare one name, each with uses of its own,
\* one of them the first label itself
C1_Witness ==
    /\ pc = "parsed"
    /\ \E name \in Names : \E j, k \in Declaring(name) :
          /\ j < k /\ j = MinOf(Declaring(name))
          /\ source[j].label # source[k].label
          /\ source[j].uses # {} /\ source[k].uses = {source[j].label}
          /\ source[j].uses # source[k].uses

\* C3: no node returned by parse_nodes has its own label in its statement uses or in
\* its proof uses.
C3_NoSelfLoop ==
    pc = "parsed" =>
        \A n \in 1..Len(nodes) :
            /\ nodes[n].latex_label \notin nodes[n].statement.uses
            /\ nodes[n].proof # NoProof => nodes[n].latex_label \notin nodes[n].proof.uses

\* a node whose statement and whose proof both name the node's label in \uses, the
\* proof being a second proof merged into the first
C3_Witness ==
    /\ pc = "parsed"
    /\ \E n \in 1..Len(nodes) :
          LET l == nodes[n].latex_label IN
          /\ nodes[n].proof # NoProof
          /\ <<"duplicate-proof", l>> \in log
          /\ \E j \in Declaring(nodes[n].name) : l \in source[j].uses
          /\ \E j \in 1..Len(label_to_source[l].proofs) :
                l \in label_to_source[l].proofs[j].uses

----------------------------------------------------------------------------
(* Claims about a whole run *)

Planned == pc \in {"rewrite", "extra", "imports", "written", "assertion_failed", "done"}
Rewritten == pc \in {"imports", "written", "assertion_failed", "done"}

PositionIn(order, name) ==
    IF \E k \in 1..Len(order) : order[k].name = name
    THEN CHOOSE k \in 1..Len(order) : order[k].name = name ELSE 0

\* the nodes write_blueprint_attributes places: lines 209
Placed(node) == is_upstream(node) \/ (convert_informal /\ is_informal(node))

\* C2: once label b is an alias of label a, a node that uses b is treated as using
\* the merged node of label a: topological_sort orders it after the merged node, and
\* the host search of write_blueprint_attributes takes it as a host of the merged node.
C2_AliasResolvedEverywhere ==
    Planned =>
        \A b \in DOMAIN label_alias :
            \A m, n \in 1..Len(nodes_with_pos) :
                LET merged == nodes_with_pos[m]
                    user == nodes_with_pos[n]
                IN  (/\ label_alias[b] # b
                     /\ merged.latex_label = label_alias[b]
                     /\ b \in Uses(user) /\ m # n)
                    => /\ PositionIn(nodes_topological_order, merged.name)
                            < PositionIn(nodes_topological_order, user.name)
                       /\ (Placed(merged) /\ lean_ok(user))
                            => \E h \in DOMAIN prepends :
                                  \E k \in 1..Len(prepends[h]) :
                                      prepends[h][k].name = merged.name

\* the places of the Lean files where the text written for `name` stands
RenderedAt(name) ==
    UNION {{<<f, j>> : j \in {k \in 1..Len(leanFiles[f]) :
                                 leanFiles[f][k] \in {Tok("name", name, {}),
                                                      Tok("def", name, {}),
                                                      Tok("theorem", name, {})}}} :
           f \in DOMAIN leanFiles}

\* C8: after write_blueprint_attributes every upstream node, and every informal node
\* when informal conversion is on, has its text in exactly one place: in the file of
\* its first ok user in topological order, before that user's text, or in the
\* fallback file when it has no such user.
C8_PlacedExactlyOnce ==
    Rewritten =>
        \A n \in 1..Len(nodes_with_pos) :
            LET node == nodes_with_pos[n]
                host == FirstHost(nodes_topological_order, node)
            IN  Placed(node) =>
                   /\ Cardinality(RenderedAt(node.name)) = 1
                   /\ \A at \in RenderedAt(node.name) :
                         IF host = 0 THEN at[1] = root_file
                         ELSE at[1] # root_file

\* the text `attribute [blueprint "label" ...] name` stands in file f, and after it
\* the attribute `@[blueprint "user" ...]` followed by the declaration of user_name
InsertedBefore(f, label, name, user, user_name) ==
    LET text == leanFiles[f] IN
    \E a, p, q, d \in 1..Len(text) :
        /\ a + 3 <= p /\ p < q /\ q + 3 < d
        /\ SubSeq(text, a, a + 3)
              = <<T("attribute ["), T("blueprint"), NL, Tok("label", label, {})>>
        /\ text[p - 2] = T("]") /\ text[p] = Tok("name", name, {})
        /\ \A k \in (a + 1)..(p - 3) : text[k].k \notin {"]", "@[", "decl"}
        /\ SubSeq(text, q, q + 3) = <<T("@["), T("blueprint"), NL, Tok("label", user, {})>>
        /\ \A k \in (p + 1)..(q - 1) : text[k].k = "nl"
        /\ text[d] = Tok("decl", user_name, {})
        /\ \A k \in q..(d - 1) : text[k].k # "decl"

\* the positions of the document where the theorem t1 declaring Foo.bar with
\* \uses{t0} stands, followed by its proof
BarThenProof ==
    {j \in 1..(Len(source) - 1) :
        /\ source[j].env = "theorem" /\ source[j].label = "t1"
        /\ source[j].lean = <<"Foo.bar">> /\ source[j].uses = {"t0"}
        /\ source[j + 1].env = "proof"}

\* t0 is declared as Foo.baz, which the lookup finds upstream, Foo.bar in the project
EndToEnd ==
    /\ BarThenProof # {}
    /\ \E k \in 1..Len(source) :
          source[k].label = "t0" /\ source[k].lean = <<"Foo.baz">> /\ source[k].uses = {}
    /\ Cardinality({k \in 1..Len(source) : source[k].label = "t0"}) = 1
    /\ Cardinality({k \in 1..Len(source) : source[k].label = "t1"}) = 1
    /\ \A k \in 1..Len(source) : source[k].label # "t2"
    /\ lean_env["Foo.baz"] # NoLocation /\ lean_env["Foo.baz"].module \notin modules
    /\ lean_env["Foo.bar"] # NoLocation /\ lean_env["Foo.bar"].module \in modules

OneBarUsingT0 ==
    /\ Cardinality(NodesNamed("Foo.bar")) = 1
    /\ \A n \in NodesNamed("Foo.bar") :
          nodes[n].latex_label = "t1" /\ nodes[n].proof # NoProof /\ Uses(nodes[n]) = {"t0"}

\* both the statement and the proof of Foo.bar carry \leanok
BarOk == \A j \in BarThenProof : source[j].leanok /\ source[j + 1].leanok

\* C7 as stated: in the end-to-end run the document parses to one node Foo.bar with
\* uses {t0}, and the attribute written on Foo.bar is preceded in its file by the
\* inserted `attribute [blueprint "t0" ...] Foo.baz`.
C7_AttributeLineInserted ==
    (Rewritten /\ EndToEnd) =>
        /\ OneBarUsingT0
        /\ InsertedBefore("Foo", "t0", "Foo.baz", "t1", "Foo.bar")

\* C7: in the end-to-end run the document parses to one node Foo.bar with uses {t0};
\* when the statement and the proof of Foo.bar are both \leanok the attribute written
\* on Foo.bar is preceded in its file by the inserted text for Foo.baz; otherwise
\* that text is in the fallback file and not in the file of Foo.bar.
C7_AttributeLineInsertedWhenOk ==
    (Rewritten /\ EndToEnd) =>
        /\ OneBarUsingT0
        /\ IF BarOk
           THEN /\ InsertedBefore("Foo", "t0", "Foo.baz", "t1", "Foo.bar")
                /\ RenderedAt("Foo.baz") \subseteq {at \in RenderedAt("Foo.baz") : at[1] = "Foo"}
                /\ Cardinality(RenderedAt("Foo.baz")) = 1
           ELSE /\ Cardinality(RenderedAt("Foo.baz")) = 1
                /\ \A at \in RenderedAt("Foo.baz") : at[1] = root_file

C7_Witness ==
    /\ pc = "done" /\ EndToEnd /\ BarOk
    /\ InsertedBefore("Foo", "t0", "Foo.baz", "t1", "Foo.bar")

\* C10: no file is written before the position lookup has returned; when the lookup
\* fails, or the run stops earlier, every file is as it was at the start.
C10_NoWriteBeforeLookup ==
    pc \in {"statements", "proofs", "selfloops", "parsed", "raised", "aborted", "extracted"}
        => /\ leanFiles = leanFiles0
           /\ texFile = source
           /\ macrosFile = <<>>

\* the lookup failed on a document that has nodes to write
C10_Witness ==
    /\ pc = "aborted"
    /\ nodes # <<>>
    /\ \E n \in 1..Len(nodes) : nodes[n].name \in DOMAIN lean_env
                                  /\ lean_env[nodes[n].name].module \in modules

----------------------------------------------------------------------------
(* Claims about topological_sort *)

Edges(ns) == {<<m, n>> \in (1..Len(ns)) \X (1..Len(ns)) : ns[m].latex_label \in Uses(ns[n])}

RECURSIVE Closure(_, _)
Closure(R, k) ==
    IF k = 0 THEN R
    ELSE Closure(R \cup {<<e[1], f[2]>> : <<e, f>> \in {ef \in R \X R : ef[1][2] = ef[2][1]}},
                 k - 1)

Acyclic(ns) == \A n \in 1..Len(ns) : <<n, n>> \notin Closure(Edges(ns), Len(ns))

NamesOf(ns) == [k \in 1..Len(ns) |-> ns[k].name]

\* C4: on a node list with unique names and an acyclic uses graph, topological_sort
\* returns the nodes of the list, each once, every node after each node whose label
\* is in its statement uses or its proof uses.
C4_TopologicalOrder ==
    (pc = "sorted" /\ Acyclic(args)) =>
        /\ Len(result) = Len(args)
        /\ SeqToSet(result) = SeqToSet(args)
        /\ \A p, q \in 1..Len(result) :
              result[q].latex_label \in Uses(result[p]) => q < p

\* A(uses={}), B(uses={A}), C(uses={B}) given as C, B, A, the use of B by C written
\* in the proof of C: the result is A, B, C
C4_Witness ==
    /\ pc = "sorted"
    /\ NamesOf(args) = <<"C", "B", "A">>
    /\ Uses(args[3]) = {} /\ Uses(args[2]) = {"a"}
    /\ args[1].statement.uses = {} /\ args[1].proof # NoProof /\ args[1].proof.uses = {"b"}
    /\ NamesOf(result) = <<"A", "B", "C">>

----------------------------------------------------------------------------
(* Claims about the order of the rewrites *)

IsLocal(node) == ~is_upstream(node) /\ ~is_informal(node)

\* the offset of the start of the declaration of `node` in the file as it was at first
StartOffset(node) ==
    Offset(leanFiles0[node.file], node.location.line, node.location.column)

\* C5: while write_blueprint_attributes rewrites the declarations, every declaration
\* still to be rewritten has the text of its file before its start offset as it was
\* at first, so that its location still splits the file at its original declaration,
\* and every declaration of its file rewritten so far starts on a larger line.
C5_ReversePhysicalOrder ==
    pc = "rewrite" =>
        \A k \in i..Len(nodes_location_order) :
            LET node == nodes_location_order[k] IN
            IsLocal(node) =>
                /\ Take(leanFiles[node.file], StartOffset(node))
                      = Take(leanFiles0[node.file], StartOffset(node))
                /\ split_declaration(leanFiles[node.file], node.location).decl
                      = split_declaration(leanFiles0[node.file], node.location).decl
                /\ \A j \in 1..(i - 1) :
                      LET done == nodes_location_order[j] IN
                      (IsLocal(done) /\ done.file = node.file
                       /\ done.location.line # node.location.line)
                          => done.location.line > node.location.line

\* the later declaration of a file was rewritten, a text prepended to it and its
\* clause line moved after that text, and the earlier declaration is still to come
C5_Witness ==
    /\ pc = "rewrite"
    /\ \E j \in 1..(i - 1), k \in i..Len(nodes_location_order) :
          LET done == nodes_location_order[j]
              node == nodes_location_order[k]
          IN  /\ IsLocal(done) /\ IsLocal(node) /\ done.file = node.file
              /\ all_prepends(prepends, done.name) # <<>>
              /\ leanFiles0[done.file][StartOffset(done) - 1].k = "modifier"
              /\ Len(leanFiles[done.file]) > Len(leanFiles0[done.file]) + 6

----------------------------------------------------------------------------
(* Claims about make_docstring *)

\* whether line k of the result, written where it stands, is within the budget
WithinBudget(k) ==
    (IF k = 1 THEN args.start_column ELSE 0) + result[k].len <= LEAN_MAX_COLUMNS

\* the single-line rendering /-- text -/ fits after start_column
FitsOneLine ==
    /\ Len(args.text) = 1
    /\ args.start_column + 4 + StrLen(args.text[1].words) + 3 <= LEAN_MAX_COLUMNS

----------------------------------------------------------------------------
(* Claims about insert_attributes *)

\* C9: insert_attributes returns the clauses, then the doc comment unchanged, then
\* one attribute list that holds the existing attributes followed by the new one,
\* then the body unchanged.
C9_AttributesAppended ==
    pc = "inserted" =>
        result = args.mods \o args.doc
                 \o <<T("@[")>>
                 \o (IF args.attrs = <<>> THEN <<>> ELSE args.attrs \o <<T(","), SP>>)
                 \o args.new_attr \o <<T("]"), NL>>
                 \o args.body

----------------------------------------------------------------------------
(* Claims about the anomalies of a document *)

\* the proofs of the document whose \proves names a label that no statement declares
ProvesUndeclared ==
    {j \in 1..Len(source) :
        /\ source[j].env = "proof" /\ ~source[j].commented /\ source[j].proves # None
        /\ \A k \in 1..Len(source) :
              (source[k].env # "proof" /\ ~source[k].commented)
                  => source[k].label # source[j].proves}

\* C11: parse_nodes raises on no document: a statement without label, a duplicate
\* label, a proof without a target, a proof whose \proves names an undeclared label
\* and a duplicate proof all leave the run on its way to the returned node list.
C11_ParseNeverRaises ==
    /\ pc # "raised"
    /\ (pc = "parsed" /\ ProvesUndeclared # {}) => \E e \in log : e[1] = "no-proved"

----------------------------------------------------------------------------
(* Claims about modify_source *)

\* the attribute written by the call holds the statement uses, the proof uses
HasUses == Tok("uses", "", args.node.statement.uses) \in SeqToSet(result)
HasProofUses ==
    /\ args.node.proof # NoProof
    /\ Tok("proofUses", "", args.node.proof.uses) \in SeqToSet(result)

----------------------------------------------------------------------------
(* Claims about Node.to_lean_attribute *)

\* the order in which the arguments are to appear
ArgumentOrder ==
    <<"label", "title", "statement", "uses", "proof", "proofUses", "notReady",
      "discussion", "latexEnv">>

\* the arguments of the attribute, in the order they are written
RECURSIVE ArgumentsOf(_)
ArgumentsOf(attr) ==
    IF attr = <<>> THEN <<>>
    ELSE (IF Head(attr).k \in SeqToSet(ArgumentOrder) THEN <<Head(attr).k>> ELSE <<>>)
         \o ArgumentsOf(Tail(attr))

\* the environment a node is taken to have when none is written
ImpliedEnv(node) == IF node.proof = NoProof THEN "definition" ELSE "theorem"

\* C13: to_lean_attribute writes latexEnv exactly when the environment of the
\* statement is not the implied one, definition without a proof and theorem with one,
\* and its arguments stand in the order label, title, statement, uses, proof,
\* proofUses, notReady, discussion, latexEnv, the label first and none twice.
C13_LatexEnvAndOrder ==
    pc = "attributed" =>
        LET arguments == ArgumentsOf(result) IN
        /\ ("latexEnv" \in SeqToSet(arguments))
              <=> (args.node.statement.latex_env # ImpliedEnv(args.node))
        /\ Tok("latexEnv", args.node.statement.latex_env, {}) \in SeqToSet(result)
              <=> (args.node.statement.latex_env # ImpliedEnv(args.node))
        /\ arguments # <<>> /\ arguments[1] = "label"
        /\ \A p, q \in 1..Len(arguments) :
              p < q => IndexIn(ArgumentOrder, arguments[p]) < IndexIn(ArgumentOrder, arguments[q])

\* a node with a proof whose statement is a definition, every argument of which is
\* written: all nine stand in the order, latexEnv last
C13_Witness ==
    /\ pc = "attributed"
    /\ args.node.proof # NoProof /\ args.node.statement.latex_env = "definition"
    /\ ArgumentsOf(result) = ArgumentOrder

----------------------------------------------------------------------------
(* Claims about the statement a proof proves *)

\* match k is a statement environment that the first loop takes
Recognized(k) ==
    k \in 1..Len(source) /\ source[k].env # "proof" /\ ~source[k].commented

\* the proof environments the second loop takes that have no \proves
PlainProofs ==
    {j \in 1..Len(source) :
        source[j].env = "proof" /\ ~source[j].commented /\ source[j].proves = None}

Resolve(label) == IF label \in DOMAIN label_alias THEN label_alias[label] ELSE label

\* the nearest statement the first loop takes before match j; 0 when there is none
NearestStatement(j) ==
    LET before == {k \in 1..(j - 1) : Recognized(k)}
    IN  IF before = {} THEN 0 ELSE CHOOSE k \in before : \A m \in before : m <= k

\* the proofs of the document, in order, that are those of label: the ones that name
\* it in \proves and the ones without \proves whose statement, found by `statement`,
\* carries it
RECURSIVE ProofsOf(_, _, _)
ProofsOf(label, statement(_), j) ==
    IF j > Len(source) THEN <<>>
    ELSE LET env == source[j]
             k == statement(j)
             target == IF env.proves # None THEN Resolve(env.proves)
                       ELSE IF k = 0 THEN None ELSE Resolve(source[k].label)
         IN  (IF env.env = "proof" /\ ~env.commented /\ target = label THEN <<env>> ELSE <<>>)
             \o ProofsOf(label, statement, j + 1)

NoProvedLogged == <<"no-proved", None>> \in log

\* C14 as stated: a proof without \proves is a proof of the nearest statement before
\* it, also across other proofs, and a diagnostic is logged whenever the document has
\* a proof without \proves that has no such statement or whose statement has no label.
C14_NearestStatement ==
    pc = "parsed" =>
        /\ \A label \in DOMAIN label_to_source :
              label_to_source[label].proofs = ProofsOf(label, NearestStatement, 1)
        /\ NoProvedLogged
              <=> \E j \in PlainProofs :
                     NearestStatement(j) = 0 \/ source[NearestStatement(j)].label = None

\* the statement just before match j, when the first loop takes it; 0 otherwise
PrecedingStatement(j) == IF Recognized(j - 1) THEN j - 1 ELSE 0

\* C14: a proof without \proves is a proof of the statement that is the match just
\* before it; when that match is not a statement the first loop takes (it is another
\* proof, it is commented out, or the proof is the first match) the proof is dropped
\* and a diagnostic is logged; when it is a statement without label the proof is
\* dropped and no diagnostic is logged for it.
C14_PrecedingStatement ==
    pc = "parsed" =>
        /\ \A label \in DOMAIN label_to_source :
              label_to_source[label].proofs = ProofsOf(label, PrecedingStatement, 1)
        /\ NoProvedLogged <=> \E j \in PlainProofs : PrecedingStatement(j) = 0

\* a statement followed by two proofs without \proves: the first is its proof, the
\* second is dropped with a diagnostic
C14_Witness ==
    /\ pc = "parsed"
    /\ Len(source) = 3 /\ Recognized(1) /\ PlainProofs = {2, 3}
    /\ source[2] # source[3]
    /\ source[1].label \in DOMAIN label_to_source
    /\ label_to_source[source[1].label].proofs = <<source[2]>>
    /\ NoProvedLogged

\* a statement without label followed by a proof without \proves: nothing is logged
\* for the proof
C14_UnlabelledWitness ==
    /\ pc = "parsed"
    /\ Recognized(1) /\ source[1].label = None /\ 2 \in PlainProofs
    /\ ~NoProvedLogged

----------------------------------------------------------------------------
(* Claims about the comment marker of wrapped lines *)

\* the overflow lines of the result: the lines that are not the first of their
\* source line
Overflow == {k \in 1..Len(result) : ~result[k].first}

C15_LeadingWitness ==
    /\ pc = "wrapped" /\ args.style = "hanging"
    /\ \E k \in Overflow : result[k - 1].pct = "start" /\ ~result[k].comment

----------------------------------------------------------------------------
(* Claims about the import line *)

ImportArchitect == T("import Architect")

\* the places of the text where the import line of the support library stands
ImportsIn(text) == {k \in 1..Len(text) : text[k] = ImportArchitect}

\* the places of the text where an import line of the file itself starts
ImportLines(text) ==
    {k \in 1..Len(text) : text[k].k = "import" /\ (k = 1 \/ text[k - 1] = NL)}

\* the files the run has edited: those of the rewritten declarations, and the
\* fallback file when a node went to it
EditedFiles ==
    {nodes_with_pos[n].file : n \in {m \in 1..Len(nodes_with_pos) : IsLocal(nodes_with_pos[m])}}
    \cup (IF extra_nodes # <<>> THEN {root_file} ELSE {})

\* C16: while declarations are still being edited no file holds the import line of
\* the support library; after write_blueprint_attributes every edited file, the
\* fallback file included, holds it once, right before its first import line or at
\* its top when it has none, and every other file is as it was.
C16_ImportAfterEdits ==
    /\ pc \in {"located", "rewrite", "extra", "imports"} =>
          \A f \in DOMAIN leanFiles : ImportsIn(leanFiles[f]) = {}
    /\ pc \in {"written", "assertion_failed"} =>
          \A f \in DOMAIN leanFiles :
              LET text == leanFiles[f] IN
              IF f \in EditedFiles
              THEN /\ Cardinality(ImportsIn(text)) = 1
                   /\ \A k \in ImportsIn(text) :
                         /\ text[k + 1] = NL
                         /\ ImportLines(text) = {} => k = 1
                         /\ ImportLines(text) # {} =>
                               /\ k + 2 \in ImportLines(text)
                               /\ \A j \in ImportLines(text) : k + 2 <= j
                               /\ k = 1 \/ text[k - 1] = NL
              ELSE /\ f \in DOMAIN leanFiles0
                   /\ text = leanFiles0[f]

\* a run that rewrote declarations of a file whose imports stand after a comment line
\* and wrote a node to the fallback file: the import line stands after the comment
\* line in the first, at the top of the second, and the third file is untouched
C16_Witness ==
    /\ pc = "written"
    /\ EditedFiles = {"Foo", root_file}
    /\ leanFiles["Foo"][1] = T("word") /\ ImportsIn(leanFiles["Foo"]) = {3}
    /\ ImportsIn(leanFiles[root_file]) = {1}
    /\ leanFiles["Foo.Basic"] = BystanderFile

----------------------------------------------------------------------------
(* Claims about topological_sort on any uses graph *)

----------------------------------------------------------------------------
(* Claims about the nodes write_blueprint_attributes returns *)

\* the nodes prepended to some host
Prepended == UNION {SeqToSet(prepends[h]) : h \in DOMAIN prepends}

\* C18: whatever the kinds and the uses of the nodes, write_blueprint_attributes gets
\* to its end, its assertion on modified_nodes holds, and at no point of the run does
\* modified_nodes hold two nodes of one name; what it returns holds only nodes of the
\* input.
C18_ReturnedNodesUnique ==
    /\ pc # "assertion_failed"
    /\ \A j, k \in 1..Len(modified_nodes) :
          j # k => modified_nodes[j].name # modified_nodes[k].name
    /\ SeqToSet(modified_nodes) \subseteq SeqToSet(nodes_with_pos)

\* a run that returned: two nodes that are upstream or informal use each other, one
\* of them is prepended to the other, and a node prepended to a rewritten declaration
\* is returned with it
C18_Witness ==
    /\ pc = "written"
    /\ \E m, n \in 1..Len(nodes_with_pos) :
          LET a == nodes_with_pos[m]
              b == nodes_with_pos[n]
          IN  /\ m # n /\ Placed(a) /\ Placed(b)
              /\ a.latex_label \in Uses(b) /\ b.latex_label \in Uses(a)
              /\ a \in SeqToSet(prepends[b.name])
    /\ \E k \in 1..Len(modified_nodes) :
          modified_nodes[k] \in Prepended /\ IsLocal(modified_nodes[1])

----------------------------------------------------------------------------
(* Claims about write_latex_source *)

\* the labels of the nodes given to write_latex_source
ConvertedLabels == {modified_nodes[k].latex_label : k \in 1..Len(modified_nodes)}

\* the label block j of the document belongs to: its own for a statement, that of
\* the statement it proves for a proof; None for a proof that was dropped
Owner(j) ==
    IF source[j].env # "proof" THEN source[j].label
    ELSE IF source[j].proves # None THEN Resolve(source[j].proves)
    ELSE IF PrecedingStatement(j) = 0 THEN None
    ELSE Resolve(source[PrecedingStatement(j)].label)

\* the blocks of the document that belong to a label of no converted node
Unconverted == {j \in 1..Len(source) : Owner(j) # None /\ Owner(j) \notin ConvertedLabels}

\* how many blocks of the text are equal to block
Count(text, block) == Cardinality({k \in 1..Len(text) : text[k] = block})

\* C19: after write_latex_source every block that belongs to a label of no converted
\* node still stands in the .tex file: the file holds at least as many blocks equal
\* to it as the document had such blocks of unconverted labels.
C19_OtherBlocksUnchanged ==
    pc = "done" =>
        \A j \in Unconverted :
            Count(texFile, source[j])
                >= Cardinality({k \in Unconverted : source[k] = source[j]})

====
